---------------------------- MODULE Spec2Model ----------------------------
(***************************************************************************)
(* Model of src/validator.js: validator constructors, field descriptors,   *)
(* the three declared models, model.prototype.errors and exports.validate. *)
(*                                                                         *)
(* JavaScript strings are sequences of one-character strings.  JavaScript  *)
(* values are records [t, s, n, b]: the type tag and the payload of a      *)
(* string, a number or a boolean.  A thrown exception is a record          *)
(* [thrown, name, message].                                                *)
(***************************************************************************)
EXTENDS Integers, Sequences, FiniteSets, TLC

VARIABLES
    model,         \* name of the constructor the instance was built with
    fields,        \* prototype.fields of the instance
    arg,           \* the argument of the constructor and of validate; the input of Email()
    data,          \* this.data
    op,            \* the last operation performed
    errorsRet,     \* outcome of the last errors() call
    log,           \* validator invocations of the last errors() call
    evaluations,   \* number of errors() calls so far
    validateRet,   \* outcome of the last exports.validate call
    legacyDates,   \* non-ISO strings the engine's fallback Date.parse accepts
    validators,    \* validators constructed so far, in construction order
    applied        \* the last direct application of a constructed validator

vars == <<model, fields, arg, data, op, errorsRet, log, evaluations,
          validateRet, legacyDates, validators, applied>>

-----------------------------------------------------------------------------
(* Bounds *)

MaxPresent == 1       \* fields present in a record given to a declared model
MaxValidators == 2    \* validators of the field of a custom model
MaxEvaluations == 1   \* errors() calls in one behaviour
MaxConstructed == 2   \* MaxLength validators constructed in one behaviour
MaxBound == 3         \* largest bound given to MaxLength when drawn freely
MaxStrLen == 4        \* longest string applied to a MaxLength validator
MaxEmailLen == 5      \* longest string applied to the Email validator

-----------------------------------------------------------------------------
(* F(x) with x evaluated once, however often F uses its argument *)

Strict(x, F(_)) == CHOOSE r \in {F(v) : v \in {x}} : TRUE

-----------------------------------------------------------------------------
(* JavaScript values *)

Undefined == [t |-> "undefined", s |-> <<>>, n |-> 0, b |-> FALSE]
Null == [t |-> "null", s |-> <<>>, n |-> 0, b |-> FALSE]
Bool(x) == [t |-> "boolean", s |-> <<>>, n |-> 0, b |-> x]
Num(x) == [t |-> "number", s |-> <<>>, n |-> x, b |-> FALSE]
Str(x) == [t |-> "string", s |-> x, n |-> 0, b |-> FALSE]

DigitChars == <<"0", "1", "2", "3", "4", "5", "6", "7", "8", "9">>

RECURSIVE NatToString(_)
NatToString(x) ==
    IF x < 10 THEN <<DigitChars[x + 1]>>
    ELSE NatToString(x \div 10) \o <<DigitChars[(x % 10) + 1]>>

\* StringOf, as RegExp.prototype.test and Date.parse apply it to their argument
StringOf(v) ==
    CASE v.t = "undefined" -> <<"u", "n", "d", "e", "f", "i", "n", "e", "d">>
      [] v.t = "null" -> <<"n", "u", "l", "l">>
      [] v.t = "boolean" -> IF v.b THEN <<"t", "r", "u", "e">>
                            ELSE <<"f", "a", "l", "s", "e">>
      [] v.t = "number" -> NatToString(v.n)
      [] v.t = "string" -> v.s

\* ToBoolean, as the ! operator applies it
Truthy(v) ==
    CASE v.t = "undefined" -> FALSE
      [] v.t = "null" -> FALSE
      [] v.t = "boolean" -> v.b
      [] v.t = "number" -> v.n # 0
      [] v.t = "string" -> Len(v.s) > 0

-----------------------------------------------------------------------------
(* Exceptions *)

NoThrow == [thrown |-> FALSE, name |-> "", message |-> ""]
Throw(name, message) == [thrown |-> TRUE, name |-> name, message |-> message]

ValidationError(type) == Throw("Error", type)

\* the TypeError of reading a property of undefined or null
TypeError(v) ==
    Throw("TypeError",
          IF v.t = "undefined" THEN "Cannot read property 'length' of undefined"
          ELSE "Cannot read property 'length' of null")

-----------------------------------------------------------------------------
(* Regular expressions: a pattern maps the set of positions (characters    *)
(* consumed so far) a match can have reached to the set it can reach next. *)

Lower == {"a", "b", "c", "d", "e", "f", "g", "h", "i", "j", "k", "l", "m",
          "n", "o", "p", "q", "r", "s", "t", "u", "v", "w", "x", "y", "z"}
Digit == {"0", "1", "2", "3", "4", "5", "6", "7", "8", "9"}
Space == {" ", "\t", "\n", "\r", "\f"}
LineEnd == {"\n", "\r"}

In(set) == [neg |-> FALSE, set |-> set]
NotIn(set) == [neg |-> TRUE, set |-> set]
Member(c, cls) == (c \in cls.set) # cls.neg

\* one character of the class
One(s, P, cls) == {p + 1 : p \in {q \in P : q < Len(s) /\ Member(s[q + 1], cls)}}

Lit(s, P, c) == One(s, P, In({c}))

RECURSIVE Star(_, _, _)
\* cls*
Star(s, P, cls) ==
    Strict(P, LAMBDA p :
      Strict(One(s, p, cls) \ p, LAMBDA q :
        IF q = {} THEN p ELSE Star(s, p \cup q, cls)))

\* cls+
Plus(s, P, cls) == Star(s, One(s, P, cls), cls)

\* c?
Opt(s, P, c) == Strict(P, LAMBDA p : p \cup Lit(s, p, c))

Anywhere(s) == 0 .. Len(s)

\* "grave" stands for the grave accent, which a TLA+ string cannot hold
AtomChars == Lower \cup Digit \cup
             {"!", "#", "$", "%", "&", "'", "*", "+", "/", "=", "?", "^", "_",
              "grave", "{", "|", "}", "~", "-"}
Alnum == Lower \cup Digit
AlnumHyphen == Alnum \cup {"-"}

RECURSIVE AtomTails(_, _)
\* (?:\.[atom]+)*
AtomTails(s, P) ==
    Strict(P, LAMBDA p :
      Strict(Plus(s, Lit(s, p, "."), In(AtomChars)) \ p, LAMBDA q :
        IF q = {} THEN p ELSE AtomTails(s, p \cup q)))

\* [a-z0-9](?:[a-z0-9-]*[a-z0-9])?
Label(s, P) ==
    Strict(One(s, P, In(Alnum)), LAMBDA first :
      first \cup One(s, Star(s, first, In(AlnumHyphen)), In(Alnum)))

RECURSIVE LabelDots(_, _)
\* (?:label\.)+
LabelDots(s, P) ==
    Strict(P, LAMBDA p :
      Strict(Lit(s, Label(s, p), "."), LAMBDA q :
        IF q \subseteq p THEN q ELSE q \cup LabelDots(s, q)))

\* the pattern of Email(), unanchored, no flags
EmailRegex(s) ==
    LET local == AtomTails(s, Plus(s, Anywhere(s), In(AtomChars)))
    IN  Label(s, LabelDots(s, Lit(s, local, "@"))) # {}

\* /^(https?):\/\/[^\s\/$.?#].[^\s]*$/
FqUrlRegex(s) ==
    LET scheme == Opt(s, Lit(s, Lit(s, Lit(s, Lit(s, {0}, "h"), "t"), "t"), "p"), "s")
        slashes == Lit(s, Lit(s, Lit(s, scheme, ":"), "/"), "/")
        host == One(s, slashes, NotIn(Space \cup {"/", "$", ".", "?", "#"}))
        any == One(s, host, NotIn(LineEnd))
    IN  Len(s) \in Star(s, any, NotIn(Space))

\* /^\/\S+$/
LocalUrlRegex(s) == Len(s) \in Plus(s, Lit(s, {0}, "/"), NotIn(Space))

\* /v?\d+\.\d+\.d+/ of Badge.version: the third segment is the letter d
VersionRegex(s) ==
    LET major == Plus(s, Opt(s, Anywhere(s), "v"), In(Digit))
        minor == Plus(s, Lit(s, major, "."), In(Digit))
    IN  Plus(s, Lit(s, minor, "."), In({"d"})) # {}

\* regex.test(input) for the patterns of the file
Test(regex, s) ==
    CASE regex = "email" -> EmailRegex(s)
      [] regex = "fq_url" -> FqUrlRegex(s)
      [] regex = "local_url" -> LocalUrlRegex(s)
      [] regex = "version" -> VersionRegex(s)

-----------------------------------------------------------------------------
(* Date.parse *)

DigitValue(c) == CHOOSE d \in 0 .. 9 : DigitChars[d + 1] = c

AllDigits(s, lo, hi) == \A i \in lo .. hi : s[i] \in Digit

RECURSIVE Number(_, _, _)
Number(s, lo, hi) ==
    IF hi < lo THEN 0 ELSE 10 * Number(s, lo, hi - 1) + DigitValue(s[hi])

\* YYYY-MM-DD
IsoDateForm(s, n) ==
    /\ n >= 10
    /\ AllDigits(s, 1, 4) /\ s[5] = "-" /\ AllDigits(s, 6, 7)
    /\ s[8] = "-" /\ AllDigits(s, 9, 10)

\* THH:mm:ss after a date
IsoTimeForm(s) ==
    /\ s[11] = "T"
    /\ AllDigits(s, 12, 13) /\ s[14] = ":" /\ AllDigits(s, 15, 16)
    /\ s[17] = ":" /\ AllDigits(s, 18, 19)

IsoForm(s) ==
    \/ Len(s) = 10 /\ IsoDateForm(s, 10)
    \/ Len(s) = 19 /\ IsoDateForm(s, 19) /\ IsoTimeForm(s)

IsoLegal(s) ==
    /\ Number(s, 6, 7) \in 1 .. 12
    /\ Number(s, 9, 10) \in 1 .. 31
    /\ Len(s) = 19 =>
         /\ Number(s, 12, 13) \in 0 .. 24
         /\ Number(s, 15, 16) \in 0 .. 59
         /\ Number(s, 18, 19) \in 0 .. 59
         /\ Number(s, 12, 13) = 24 => (Number(s, 15, 16) = 0 /\ Number(s, 18, 19) = 0)

HasDigit(s) == \E i \in 1 .. Len(s) : s[i] \in Digit

\* TRUE iff Date.parse(s) is NaN.  A string of the ISO form is decided by its
\* elements; any other string goes to the engine's own fallback parser, which
\* needs a number to build a date from and is otherwise implementation-defined.
DateParseIsNaN(s) ==
    IF IsoForm(s) THEN ~IsoLegal(s)
    ELSE IF HasDigit(s) THEN s \notin legacyDates
    ELSE TRUE

-----------------------------------------------------------------------------
(* Validators: the functions the constructors return *)

RegExFn(regex, input) ==
    Strict(StringOf(input), LAMBDA s :
      IF ~Test(regex, s) THEN ValidationError("regexp") ELSE NoThrow)

ISODateFn(input) ==
    Strict(StringOf(input), LAMBDA s :
      IF DateParseIsNaN(s) THEN ValidationError("isodate") ELSE NoThrow)

\* input.length > len: undefined and null have no properties; a number or a
\* boolean has no length, and undefined > len is false
MaxLengthFn(len, input) ==
    CASE input.t \in {"undefined", "null"} -> TypeError(input)
      [] input.t = "string" ->
           IF Len(input.s) > len THEN ValidationError("length") ELSE NoThrow
      [] OTHER -> NoThrow

URLFn(input) ==
    IF RegExFn("fq_url", input).thrown THEN RegExFn("local_url", input)
    ELSE NoThrow

\* Validator constructors: the closure and what it captured
RegEx(regex) == [kind |-> "RegEx", regex |-> regex, len |-> 0]
ISODate == [kind |-> "ISODate", regex |-> "", len |-> 0]
Email == RegEx("email")
MaxLength(len) == [kind |-> "MaxLength", regex |-> "", len |-> len]
URL == [kind |-> "URL", regex |-> "", len |-> 0]

\* validator(input)
Call(validator, input) ==
    CASE validator.kind = "RegEx" -> RegExFn(validator.regex, input)
      [] validator.kind = "ISODate" -> ISODateFn(input)
      [] validator.kind = "MaxLength" -> MaxLengthFn(validator.len, input)
      [] validator.kind = "URL" -> URLFn(input)

-----------------------------------------------------------------------------
(* Objects: functions from property names to values *)

EmptyObject == [x \in {} |-> ""]
Has(obj, k) == k \in DOMAIN obj
Put(obj, k, v) == [x \in DOMAIN obj \cup {k} |-> IF x = k THEN v ELSE obj[x]]

\* provided[k]: an absent property reads as undefined
Get(obj, k) == IF Has(obj, k) THEN obj[k] ELSE Undefined

\* if (err[k]): an absent property and the empty string are falsy
ErrTruthy(err, k) == Has(err, k) /\ err[k] # ""

-----------------------------------------------------------------------------
(* Field descriptors and the declared models.  A fields object is the      *)
(* sequence of its <<name, descriptor>> properties in declaration order.   *)

field(req, vs) == [required |-> req, validators |-> vs]
required(vs) == field(TRUE, vs)
optional(vs) == field(FALSE, vs)

Assertion_fields ==
    << <<"recipient", required(<<Email>>)>>,
       <<"evidence", optional(<<URL>>)>>,
       <<"expires", optional(<<ISODate>>)>>,
       <<"issued_at", optional(<<ISODate>>)>> >>

Badge_fields ==
    << <<"version", required(<<RegEx("version")>>)>>,
       <<"name", required(<<MaxLength(128)>>)>>,
       <<"description", required(<<MaxLength(128)>>)>>,
       <<"image", required(<<URL>>)>>,
       <<"criteria", required(<<URL>>)>> >>

Issuer_fields ==
    << <<"name", required(<<MaxLength(128)>>)>>,
       <<"org", optional(<<MaxLength(128)>>)>>,
       <<"contact", optional(<<Email>>)>>,
       <<"url", optional(<<URL>>)>> >>

\* Object.keys(fields)
ObjectKeys(fs) == [i \in DOMAIN fs |-> fs[i][1]]

\* fields[k]
FieldAt(fs, k) == fs[CHOOSE i \in DOMAIN fs : fs[i][1] = k][2]

\* this.data = data || {}
Data(a) == IF a.given THEN a.record ELSE EmptyObject

-----------------------------------------------------------------------------
(* model.prototype.errors *)

\* Variant: an explicit presence check in place of the truthiness test
MissingIfAbsent(provided, k, f) == ~Has(provided, k) /\ f.required

\* !provided[k] && fields[k].required
Missing(provided, k, f) == ~Truthy(Get(provided, k)) /\ f.required

\* Variant: a catch clause that takes ValidationErrors only
CatchesValidationErrors(e) == e.name = "Error"

\* the catch clause of the validator loop: it takes every exception
Catches(e) == TRUE

\* Variant: the first failure of a field is kept
AssignFirst(err, k, e) == IF Has(err, k) THEN err ELSE Put(err, k, e.message)

\* err[k] = e.message
Assign(err, k, e) == Put(err, k, e.message)

\* Variant: err is pushed for every field
PushAlways(errors, err, k) == Append(errors, err)

\* if (err[k]) { errors.push(err); }
Push(errors, err, k) == IF ErrTruthy(err, k) THEN Append(errors, err) ELSE errors

RECURSIVE forEachValidator(_, _, _, _, _)
\* st = [err, log, escaped]: the err object, the invocations so far and the
\* exception that left the loop, if any
forEachValidator(vs, i, k, input, st) ==
    Strict(st, LAMBDA t :
      IF i > Len(vs) \/ t.escaped.thrown THEN t
      ELSE Strict(Call(vs[i], input), LAMBDA e :
             Strict(Append(t.log, [field |-> k, index |-> i, outcome |-> e]),
                    LAMBDA logged :
               IF ~e.thrown
                 THEN forEachValidator(vs, i + 1, k, input, [t EXCEPT !.log = logged])
               ELSE IF Catches(e)
                 THEN forEachValidator(vs, i + 1, k, input,
                          [t EXCEPT !.log = logged, !.err = Assign(t.err, k, e)])
               ELSE [t EXCEPT !.log = logged, !.escaped = e])))

\* one pass of the field loop for field k: [err, log, escaped]
checkField(k, f, provided, logged) ==
    IF Missing(provided, k, f)
      THEN [err |-> Put(EmptyObject, k, "missing"),
            log |-> logged, escaped |-> NoThrow]
    ELSE forEachValidator(f.validators, 1, k, Get(provided, k),
             [err |-> EmptyObject, log |-> logged, escaped |-> NoThrow])

RECURSIVE forEachField(_, _, _, _, _)
\* st = [errors, log, escaped]
forEachField(expected, i, fs, provided, st) ==
    Strict(st, LAMBDA t :
      IF i > Len(expected) \/ t.escaped.thrown THEN t
      ELSE Strict(checkField(expected[i], FieldAt(fs, expected[i]), provided, t.log),
                  LAMBDA checked :
             IF checked.escaped.thrown
               THEN [t EXCEPT !.log = checked.log, !.escaped = checked.escaped]
             ELSE forEachField(expected, i + 1, fs, provided,
                      [errors |-> Push(t.errors, checked.err, expected[i]),
                       log |-> checked.log, escaped |-> NoThrow])))

\* the call this.errors() with this.fields = fs and this.data = provided:
\* [errors, log, escaped]; the call returns errors unless escaped.thrown
errors(fs, provided) ==
    forEachField(ObjectKeys(fs), 1, fs, provided,
                 [errors |-> <<>>, log |-> <<>>, escaped |-> NoThrow])

-----------------------------------------------------------------------------
(* exports.validate *)

\* Variant: validate wired to the Assertion model
validateAssertion(assertion) ==
    LET r == errors(Assertion_fields, Data(assertion))
    IN  [status |-> IF r.errors = <<>> THEN "okay" ELSE "invalid", error |-> r.errors]

validate(assertion) == [status |-> "okay", error |-> <<>>]

-----------------------------------------------------------------------------
(* Inputs *)

\* a string one longer than the limit of the declared MaxLength validators
LongString == [i \in 1 .. 128 + 1 |-> "w"]

GoodEmail == <<"b", "@", "e", "x", "a", "m", "p", "l", "e", ".", "c", "o", "m">>
LocalPath == <<"/", "a">>
HttpUrl == <<"h", "t", "t", "p", ":", "/", "/", "a", "b">>
GoodDate == <<"2", "0", "1", "0", "-", "0", "9", "-", "1", "0">>
BadDate == <<"2", "0", "1", "0", "-", "0", "9", "-", "4", "0">>
GoodVersion == <<"1", ".", "2", ".", "d">>

Values ==
    {Null, Bool(FALSE), Bool(TRUE), Num(0), Str(<<>>), Str(<<"w">>),
     Str(GoodEmail), Str(LocalPath), Str(HttpUrl), Str(GoodDate), Str(BadDate),
     Str(GoodVersion), Str(LongString)}

\* the strings among StringOf(Values) that are not of the ISO form and hold a
\* digit: Date.parse of these is implementation-defined
LegacyStrings == {<<"0">>, GoodVersion}

Names(fs) == {fs[i][1] : i \in DOMAIN fs}

\* records with at most MaxPresent of the given properties
Records(names) ==
    UNION {[S -> Values] : S \in {T \in SUBSET names : Cardinality(T) <= MaxPresent}}

Args(fs) ==
    {[given |-> FALSE, record |-> EmptyObject]}
      \cup {[given |-> TRUE, record |-> r] : r \in Records(Names(fs))}

RECURSIVE SeqsUpTo(_, _)
SeqsUpTo(S, n) ==
    IF n = 0 THEN {<<>>}
    ELSE LET shorter == SeqsUpTo(S, n - 1)
         IN  shorter \cup {Append(q, x) : q \in {r \in shorter : Len(r) = n - 1}, x \in S}

\* models made by model_factory() with one field of any descriptor
CustomValidators == {Email, URL, ISODate, MaxLength(1)}
Custom_fields ==
    {<< <<"field", field(req, vs)>> >> :
        req \in BOOLEAN, vs \in SeqsUpTo(CustomValidators, MaxValidators)}

FieldsOf(m) ==
    CASE m = "Assertion" -> {Assertion_fields}
      [] m = "Badge" -> {Badge_fields}
      [] m = "Issuer" -> {Issuer_fields}
      [] m = "Custom" -> Custom_fields

Declared == {"Assertion", "Badge", "Issuer"}

NoResult == [returned |-> FALSE, raised |-> FALSE, errors |-> <<>>]
NoValidation == [status |-> "", error |-> <<>>]
NoApplication == [index |-> 0, input |-> Undefined, outcome |-> NoThrow]

-----------------------------------------------------------------------------
(* The instance of a model: new Model(arg), then errors() and validate(arg) *)

Init ==
    /\ model \in Declared \cup {"Custom"}
    /\ fields \in FieldsOf(model)
    /\ arg \in Args(fields)
    /\ data = Data(arg)
    /\ legacyDates \in SUBSET LegacyStrings
    /\ op = "new"
    /\ errorsRet = NoResult
    /\ log = <<>>
    /\ evaluations = 0
    /\ validateRet = NoValidation
    /\ validators = <<>>
    /\ applied = NoApplication

Errors ==
    /\ evaluations < MaxEvaluations
    /\ LET r == errors(fields, data)
       IN  /\ errorsRet' = [returned |-> ~r.escaped.thrown,
                            raised |-> r.escaped.thrown,
                            errors |-> r.errors]
           /\ log' = r.log
    /\ evaluations' = evaluations + 1
    /\ op' = "errors"
    /\ UNCHANGED <<model, fields, arg, data, validateRet, legacyDates,
                   validators, applied>>

Validate ==
    /\ validateRet' = validate(arg)
    /\ op' = "validate"
    /\ UNCHANGED <<model, fields, arg, data, errorsRet, log, evaluations,
                   legacyDates, validators, applied>>

Next == Errors \/ Validate

Spec == Init /\ [][Next]_vars

-----------------------------------------------------------------------------
(* Validators constructed and applied directly *)

\* Variant: len is one variable shared by every closure
SharedLen(vs, i) == [vs[i] EXCEPT !.len = vs[Len(vs)].len]

\* the closure at index i, with the len it captured
Captured(vs, i) == vs[i]

ConstructMaxLength(n) ==
    /\ Len(validators) < MaxConstructed
    /\ validators' = Append(validators, MaxLength(n))
    /\ UNCHANGED <<model, fields, arg, data, op, errorsRet, log, evaluations,
                   validateRet, legacyDates, applied>>

ApplyValidator(i, v) ==
    /\ i \in DOMAIN validators
    /\ applied' = [index |-> i, input |-> v,
                   outcome |-> Call(Captured(validators, i), v)]
    /\ UNCHANGED <<model, fields, arg, data, op, errorsRet, log, evaluations,
                   validateRet, legacyDates, validators>>

InitValidators ==
    /\ model = "none"
    /\ fields = <<>>
    /\ data = EmptyObject
    /\ legacyDates = {}
    /\ op = "new"
    /\ errorsRet = NoResult
    /\ log = <<>>
    /\ evaluations = 0
    /\ validateRet = NoValidation
    /\ applied = NoApplication

WStrings == {[i \in 1 .. n |-> "w"] : n \in 0 .. MaxStrLen}

InitMaxLength == InitValidators /\ arg = Undefined /\ validators = <<>>

NextMaxLength ==
    \/ \E n \in 0 .. MaxBound : ConstructMaxLength(n)
    \/ \E i \in 1 .. MaxConstructed, s \in WStrings : ApplyValidator(i, Str(s))

SpecMaxLength == InitMaxLength /\ [][NextMaxLength]_vars

EmailAlphabet == {"a", "A", "@", "."}
EmailStrings == SeqsUpTo(EmailAlphabet, MaxEmailLen)

InitEmail ==
    InitValidators /\ arg \in {Str(s) : s \in EmailStrings} /\ validators = <<Email>>

NextEmail == ApplyValidator(1, arg)

SpecEmail == InitEmail /\ [][NextEmail]_vars

-----------------------------------------------------------------------------
(* Properties *)

Evaluated == evaluations > 0

Kinds == {"missing", "regexp", "isodate", "length"}

\* the kind an entry holds, and the entries of a field
KindOf(entry) == entry[CHOOSE k \in DOMAIN entry : TRUE]
EntriesOf(k) == {i \in DOMAIN errorsRet.errors : Has(errorsRet.errors[i], k)}

\* the invocations of the validators of a field, in the order they happened
CallsOf(k) == SelectSeq(log, LAMBDA c : c.field = k)
Failures(k) == {j \in DOMAIN CallsOf(k) : CallsOf(k)[j].outcome.thrown}

\* one {name: 'missing'} per required field, in declaration order
MissingEntries(fs) ==
    LET req == SelectSeq(fs, LAMBDA p : p[2].required)
    IN  [i \in DOMAIN req |-> Put(EmptyObject, req[i][1], "missing")]

Position(fs, k) == CHOOSE i \in DOMAIN fs : fs[i][1] = k

LowerSeq == <<"a", "b", "c", "d", "e", "f", "g", "h", "i", "j", "k", "l", "m",
              "n", "o", "p", "q", "r", "s", "t", "u", "v", "w", "x", "y", "z">>
UpperSeq == <<"A", "B", "C", "D", "E", "F", "G", "H", "I", "J", "K", "L", "M",
              "N", "O", "P", "Q", "R", "S", "T", "U", "V", "W", "X", "Y", "Z">>
UpperCase(c) ==
    IF c \in Lower THEN UpperSeq[CHOOSE i \in DOMAIN LowerSeq : LowerSeq[i] = c] ELSE c

RECURSIVE UpperVariants(_)
\* s with any of its letters changed to upper case
UpperVariants(s) ==
    IF s = <<>> THEN {<<>>}
    ELSE {<<c>> \o r : c \in {Head(s), UpperCase(Head(s))}, r \in UpperVariants(Tail(s))}

\* C1: errors() of a declared model built from an empty record, or from no
\* record, returns exactly one 'missing' entry per required field and
\* nothing else.
C1_EmptyRecordMissingOnly ==
    (Evaluated /\ model \in Declared /\ data = EmptyObject)
      => /\ errorsRet.returned
         /\ errorsRet.errors = MissingEntries(fields)

\* C2: errors() of an Assertion whose record holds only the recipient
\* b@example.com returns the empty list.
C2_RecipientOnlyAccepted ==
    (Evaluated /\ model = "Assertion"
       /\ data = Put(EmptyObject, "recipient", Str(GoodEmail)))
      => /\ errorsRet.returned
         /\ errorsRet.errors = <<>>

\* C3: every call of validate returns {status: 'okay', error: []} and
\* evaluates no model: the count of errors() calls, the result of the last
\* one and the validator invocations stay as they were.
C3_ValidateFixed ==
    [][op' = "validate" =>
         /\ validateRet' = [status |-> "okay", error |-> <<>>]
         /\ evaluations' = evaluations
         /\ errorsRet' = errorsRet
         /\ log' = log]_vars

\* C3 witness: validate has answered for an Assertion record that errors()
\* rejects, and no evaluation has happened.
C3_Witness ==
    /\ op = "validate"
    /\ model = "Assertion"
    /\ evaluations = 0
    /\ errors(fields, data).errors # <<>>
    /\ validateRet.status = "okay"

\* C4: every entry of a list errors() returns for a declared model holds one
\* of the kinds missing, regexp, isodate, length.
C4_KindsInTaxonomy ==
    (Evaluated /\ model \in Declared)
      => \A i \in DOMAIN errorsRet.errors : KindOf(errorsRet.errors[i]) \in Kinds

\* C5: errors() returns a list and raises nothing, and every failure raised
\* by a validator has become the entry of the field that was being checked.
C5_NoFailureEscapes ==
    Evaluated
      => /\ errorsRet.returned
         /\ ~errorsRet.raised
         /\ \A j \in DOMAIN log :
              log[j].outcome.thrown => EntriesOf(log[j].field) # {}

\* C5 witness: a validator raised a TypeError, which is no ValidationError,
\* and errors() returned a list with an entry for that field.
C5_Witness ==
    /\ Evaluated
    /\ errorsRet.returned
    /\ \E j \in DOMAIN log :
         /\ log[j].outcome.name = "TypeError"
         /\ EntriesOf(log[j].field) # {}

\* C6: a required field whose value is absent or falsy has exactly one
\* entry, of kind 'missing', and none of its validators is invoked.
C6_RequiredFalsyIsMissing ==
    Evaluated
      => \A i \in DOMAIN fields :
           LET k == fields[i][1]
           IN  (fields[i][2].required /\ ~Truthy(Get(data, k)))
                 => /\ Cardinality(EntriesOf(k)) = 1
                    /\ \A e \in EntriesOf(k) :
                         errorsRet.errors[e] = Put(EmptyObject, k, "missing")
                    /\ CallsOf(k) = <<>>

\* C6 witness: a required field with validators holds a present but falsy
\* value and has been reported missing.
C6_Witness ==
    /\ Evaluated
    /\ \E i \in DOMAIN fields :
         LET k == fields[i][1]
         IN  /\ fields[i][2].required
             /\ fields[i][2].validators # <<>>
             /\ Has(data, k)
             /\ ~Truthy(data[k])
             /\ EntriesOf(k) # {}

\* C7: MaxLength(n) applied to a string s raises 'length' exactly when the
\* length of s exceeds n, and accepts otherwise, whatever other MaxLength
\* validators were constructed or applied before.
C7_MaxLengthExact ==
    applied.index # 0
      => LET n == validators[applied.index].len
             s == applied.input.s
         IN  /\ Len(s) > n => applied.outcome = ValidationError("length")
             /\ Len(s) <= n => applied.outcome = NoThrow

\* C7 witness: two validators with different bounds exist, and the second
\* accepted a string of exactly its bound that is longer than the first's.
C7_Witness ==
    /\ applied.index = 2
    /\ Len(applied.input.s) = validators[2].len
    /\ Len(applied.input.s) > validators[1].len
    /\ applied.outcome = NoThrow

\* C8: whenever Email() accepts an address it accepts the address with any
\* of its letters changed to upper case.
C8_EmailCaseInsensitive ==
    (applied.index = 1 /\ ~applied.outcome.thrown)
      => \A u \in UpperVariants(applied.input.s) :
           ~Call(validators[1], Str(u)).thrown

\* C9: for a field not reported missing, every validator is run once, in
\* declared order, on the provided value; the field's entry holds the kind
\* of the last validator that failed, and there is no entry when none failed.
C9_LastFailureWins ==
    Evaluated
      => \A i \in DOMAIN fields :
           LET k == fields[i][1]
               vs == fields[i][2].validators
               calls == CallsOf(k)
           IN  ~Missing(data, k, fields[i][2])
                 => /\ Len(calls) = Len(vs)
                    /\ \A j \in DOMAIN calls :
                         /\ calls[j].index = j
                         /\ calls[j].outcome = Call(vs[j], Get(data, k))
                    /\ Failures(k) = {} => EntriesOf(k) = {}
                    /\ Failures(k) # {}
                         => \A e \in EntriesOf(k) :
                              errorsRet.errors[e][k] =
                                calls[CHOOSE j \in Failures(k) :
                                        \A h \in Failures(k) : h <= j].outcome.message
                    /\ Failures(k) # {} => EntriesOf(k) # {}

\* C9 witness: a field with two validators that fail with different kinds,
\* reported with the second one's kind; and a field whose first validator
\* fails and whose second passes, reported with the first one's kind.
C9_Witness ==
    /\ Evaluated
    /\ Len(fields) = 1
    /\ Len(log) = 2
    /\ log[1].outcome.thrown
    /\ log[2].outcome.thrown
    /\ log[1].outcome.message # log[2].outcome.message
    /\ errorsRet.errors = <<Put(EmptyObject, fields[1][1], log[2].outcome.message)>>

\* C10: the list holds at most one entry per declared field, each entry has
\* exactly one key, a declared field name, the entries are in declaration
\* order, and a field has an entry iff it was reported missing or one of its
\* validators failed.
C10_OneEntryPerFailedField ==
    Evaluated
      => LET es == errorsRet.errors
         IN  /\ \A i \in DOMAIN es :
                  /\ Cardinality(DOMAIN es[i]) = 1
                  /\ DOMAIN es[i] \subseteq Names(fields)
             /\ \A i, j \in DOMAIN es :
                  i < j => \A a \in DOMAIN es[i], b \in DOMAIN es[j] :
                             Position(fields, a) < Position(fields, b)
             /\ \A i \in DOMAIN fields :
                  LET k == fields[i][1]
                  IN  /\ Cardinality(EntriesOf(k)) <= 1
                      /\ EntriesOf(k) # {}
                           <=> (Missing(data, k, fields[i][2]) \/ Failures(k) # {})

\* C10 witness: a declared model with a field that passed and two or more
\* fields that failed.
C10_Witness ==
    /\ Evaluated
    /\ model \in Declared
    /\ Len(errorsRet.errors) >= 2
    /\ \E i \in DOMAIN fields : EntriesOf(fields[i][1]) = {}

=============================================================================
